---------------------------- MODULE Spec2Model ----------------------------
(***************************************************************************)
(* A model of the ziggy decoder (src/src/ziggy/parser.py).                 *)
(*                                                                         *)
(* Text is a sequence of one-character strings; the documents of the model *)
(* are text, on which str.encode and bytes.decode("utf-8") are inverse, so *)
(* a str and the bytes of a node or of the input are the same sequence.    *)
(* A Python value is a record tagged by its field k.  A call of a function *)
(* of the module is one step of the machine: idle --call--> done, then     *)
(* done --return--> idle.  The                                             *)
(* functions a caller registers (literals, structs) are symbolic: applying *)
(* one yields the host object PyObj(kind, name, argument) and appends the  *)
(* invocation to the log of the call.                                      *)
(***************************************************************************)
EXTENDS Integers, Sequences, FiniteSets, TLC

VARIABLES pc, op, arg, ret

vars == <<pc, op, arg, ret>>

-----------------------------------------------------------------------------
(* Characters and text                                                     *)

QUOTE == "\""
BSL == "\\"
NL == "\n"
USCORE == "_"

DecDigits == <<"0", "1", "2", "3", "4", "5", "6", "7", "8", "9">>

RECURSIVE Pow(_, _)
Pow(b, n) == IF n = 0 THEN 1 ELSE b * Pow(b, n - 1)

Range(s) == {s[i] : i \in DOMAIN s}

StartsWith(s, p) == Len(s) >= Len(p) /\ SubSeq(s, 1, Len(p)) = p

Drop(s, n) == SubSeq(s, n + 1, Len(s))

\* str.lower() on the letters a numeric lexeme can hold.
LowerChar(c) ==
  CASE c = "A" -> "a" [] c = "B" -> "b" [] c = "C" -> "c" [] c = "D" -> "d"
    [] c = "E" -> "e" [] c = "F" -> "f" [] c = "X" -> "x" [] c = "O" -> "o"
    [] c = "P" -> "p" [] OTHER -> c

Lower(s) == [i \in DOMAIN s |-> LowerChar(s[i])]

\* str.lstrip(chars) / str.rstrip(chars) / str.strip(chars): chars is a SET of
\* characters, and every leading (trailing) character in it is removed.
RECURSIVE LStrip(_, _)
LStrip(s, chars) ==
  IF s # <<>> /\ s[1] \in chars THEN LStrip(Tail(s), chars) ELSE s

RECURSIVE RStrip(_, _)
RStrip(s, chars) ==
  IF s # <<>> /\ s[Len(s)] \in chars
  THEN RStrip(SubSeq(s, 1, Len(s) - 1), chars) ELSE s

Strip(s, chars) == RStrip(LStrip(s, chars), chars)

\* str.split(sep) for a one-character separator: the sequence of the pieces.
RECURSIVE Split(_, _)
Split(s, sep) ==
  IF \E i \in DOMAIN s : s[i] = sep
  THEN LET i == CHOOSE j \in DOMAIN s :
                  s[j] = sep /\ \A h \in 1..(j - 1) : s[h] # sep
       IN  <<SubSeq(s, 1, i - 1)>> \o Split(Drop(s, i), sep)
  ELSE <<s>>

\* sep.join(parts)
RECURSIVE Join(_, _)
Join(parts, sep) ==
  IF parts = <<>> THEN <<>>
  ELSE IF Len(parts) = 1 THEN parts[1]
  ELSE parts[1] \o sep \o Join(Tail(parts), sep)

\* str(n) of a natural number, as an f-string formats it.
RECURSIVE DecStr(_)
DecStr(n) ==
  IF n < 10 THEN <<DecDigits[n + 1]>>
  ELSE DecStr(n \div 10) \o <<DecDigits[(n % 10) + 1]>>

-----------------------------------------------------------------------------
(* Python values and the outcome of a call                                 *)

PyNone == [k |-> "none"]
PyBool(b) == [k |-> "bool", v |-> b]
PyInt(n) == [k |-> "int", v |-> n]
\* A float is kept exactly, as mant * 10^scale.
PyFloat(m, e) == [k |-> "float", mant |-> m, scale |-> e]
PyStr(s) == [k |-> "str", v |-> s]
PyList(xs) == [k |-> "list", v |-> xs]
\* A dict is the sequence of its <<key, value>> items in insertion order.
PyDict(items) == [k |-> "dict", v |-> items]
\* What a registered function returns: opaque to the decoder.
PyObj(kind, name, a) == [k |-> "obj", kind |-> kind, name |-> name, v |-> a]

\* What a call leaves behind, in order: the nodes interpret was entered on and
\* the registered functions that were invoked, each with its argument.
Visit(type) == [ev |-> "interpret", name |-> <<type>>, v |-> PyNone]
Invoke(registry, name, a) == [ev |-> registry, name |-> name, v |-> a]

\* The invocations of registered functions among the events of a log.
Calls(log) == SelectSeq(log, LAMBDA e : e.ev # "interpret")

\* A call returns a value or raises an exception with a message.
Returned(v, log) == [ok |-> TRUE, val |-> v, err |-> "", msg |-> <<>>, log |-> log]
Raised(e, m, log) == [ok |-> FALSE, val |-> PyNone, err |-> e, msg |-> m, log |-> log]

WithLog(prefix, r) == [r EXCEPT !.log = prefix \o @]

-----------------------------------------------------------------------------
(* int(s, base) of Python                                                  *)

DigitVal(c) ==
  CASE c = "0" -> 0 [] c = "1" -> 1 [] c = "2" -> 2 [] c = "3" -> 3
    [] c = "4" -> 4 [] c = "5" -> 5 [] c = "6" -> 6 [] c = "7" -> 7
    [] c = "8" -> 8 [] c = "9" -> 9
    [] c \in {"a", "A"} -> 10 [] c \in {"b", "B"} -> 11
    [] c \in {"c", "C"} -> 12 [] c \in {"d", "D"} -> 13
    [] c \in {"e", "E"} -> 14 [] c \in {"f", "F"} -> 15
    [] OTHER -> 99

IsDigit(c, base) == DigitVal(c) < base

BasePrefixes(base) ==
  CASE base = 16 -> {<<"0", "x">>, <<"0", "X">>}
    [] base = 8 -> {<<"0", "o">>, <<"0", "O">>}
    [] base = 2 -> {<<"0", "b">>, <<"0", "B">>}
    [] OTHER -> {}

\* The digits of an int literal: digits of the base, single underscores
\* between digits only (one may follow a base prefix).
DigitsOk(d, base, afterPrefix) ==
  /\ d # <<>>
  /\ \A i \in DOMAIN d : IsDigit(d[i], base) \/ d[i] = USCORE
  /\ IsDigit(d[Len(d)], base)
  /\ (afterPrefix \/ IsDigit(d[1], base))
  /\ \A i \in 1..(Len(d) - 1) : ~(d[i] = USCORE /\ d[i + 1] = USCORE)

RECURSIVE DigitsVal(_, _, _)
DigitsVal(d, base, acc) ==
  IF d = <<>> THEN acc
  ELSE IF d[1] = USCORE THEN DigitsVal(Tail(d), base, acc)
  ELSE DigitsVal(Tail(d), base, acc * base + DigitVal(d[1]))

\* int(s, base): an optional sign, an optional prefix of the base, digits.
\* [ok, v]; ok = FALSE is ValueError.
IntOf(s, base) ==
  LET signed == s # <<>> /\ s[1] \in {"+", "-"}
      body == IF signed THEN Tail(s) ELSE s
      prefixed == Len(body) >= 2 /\ SubSeq(body, 1, 2) \in BasePrefixes(base)
      digits == IF prefixed THEN Drop(body, 2) ELSE body
  IN  IF DigitsOk(digits, base, prefixed)
      THEN [ok |-> TRUE,
            v |-> IF signed /\ s[1] = "-" THEN 0 - DigitsVal(digits, base, 0)
                  ELSE DigitsVal(digits, base, 0)]
      ELSE [ok |-> FALSE, v |-> 0]

-----------------------------------------------------------------------------
(* interpret_integer                                                       *)

\* interpret_integer without its octal branch.
interpret_integer_no_octal(s) ==
  LET base == IF StartsWith(s, <<"0", "x">>) THEN 16
              ELSE IF StartsWith(s, <<"0", "b">>) THEN 2
              ELSE 10
      t == IF base # 10 THEN Drop(s, 2) ELSE s
      r == IntOf(t, base)
  IN  IF r.ok THEN Returned(PyInt(r.v), <<>>)
      ELSE Raised("ValueError", <<"invalid literal">>, <<>>)

interpret_integer(s) ==
  LET base == IF StartsWith(s, <<"0", "x">>) THEN 16
              ELSE IF StartsWith(s, <<"0", "o">>) THEN 8
              ELSE IF StartsWith(s, <<"0", "b">>) THEN 2
              ELSE 10
      t == IF base # 10 THEN Drop(s, 2) ELSE s
      r == IntOf(t, base)
  IN  IF r.ok THEN Returned(PyInt(r.v), <<>>) ELSE Raised("ValueError", <<"invalid literal">>, <<>>)

-----------------------------------------------------------------------------
(* interpret_float                                                         *)

\* float(s) on a decimal lexeme: digits, an optional fraction, an optional
\* exponent.  [ok, mant, scale]; ok = FALSE is ValueError.
FloatOf(s) ==
  LET signed == s # <<>> /\ s[1] \in {"+", "-"}
      body == IF signed THEN Tail(s) ELSE s
      me == Split(body, "e")
      m == Split(me[1], ".")
      ip == m[1]
      fp == IF Len(m) = 2 THEN m[2] ELSE <<>>
      e == IF Len(me) = 2 THEN IntOf(me[2], 10) ELSE [ok |-> TRUE, v |-> 0]
      fdigits == Cardinality({i \in DOMAIN fp : fp[i] # USCORE})
      mant == DigitsVal(ip \o fp, 10, 0)
  IN  IF /\ Len(me) <= 2
         /\ Len(m) <= 2
         /\ e.ok
         /\ (ip # <<>> \/ fp # <<>>)
         /\ (ip = <<>> \/ DigitsOk(ip, 10, FALSE))
         /\ (fp = <<>> \/ DigitsOk(fp, 10, FALSE))
      THEN [ok |-> TRUE,
            mant |-> IF signed /\ s[1] = "-" THEN 0 - mant ELSE mant,
            scale |-> e.v - fdigits]
      ELSE [ok |-> FALSE, mant |-> 0, scale |-> 0]

\* round(math.log10(n)) for an integer n >= 1: the m with
\* 10^(m - 1/2) <= n < 10^(m + 1/2), that is 10^(2m-1) <= n^2 < 10^(2m+1).
RECURSIVE RoundLog10From(_, _)
RoundLog10From(n, m) ==
  IF n * n < Pow(10, 2 * m + 1) THEN m ELSE RoundLog10From(n, m + 1)

RoundLog10(n) == RoundLog10From(n, 0)

interpret_float(s0) ==
  LET s == Strip(Lower(s0), {USCORE})
  IN
  IF ~StartsWith(s, <<"0", "x">>)
  THEN LET f == FloatOf(s)
       IN  IF f.ok THEN Returned(PyFloat(f.mant, f.scale), <<>>)
           ELSE Raised("ValueError", <<"invalid literal">>, <<>>)
  ELSE
  LET hasP == "p" \in Range(Drop(s, 2))
      xe == Split(s, "p")
      x == IF hasP THEN xe[1] ELSE s
      exp == IF hasP /\ Len(xe) = 2 THEN IntOf(xe[2], 10)
             ELSE [ok |-> TRUE, v |-> 0]
      hasDot == "." \in Range(x)
      bd == Split(x, ".")
      base == IF hasDot THEN IntOf(bd[1], 16) ELSE IntOf(x, 16)
      idec == IF hasDot /\ Len(bd) = 2 THEN IntOf(bd[2], 16)
              ELSE [ok |-> TRUE, v |-> 0]
      k == RoundLog10(idec.v) + 1
  IN  IF \/ (hasP /\ Len(xe) # 2)
         \/ ~exp.ok
         \/ (hasDot /\ Len(bd) # 2)
         \/ ~base.ok
         \/ ~idec.ok
         \/ idec.v < 0
      THEN Raised("ValueError", <<"invalid literal">>, <<>>)
      ELSE IF idec.v = 0
      THEN Returned(PyFloat(base.v, exp.v), <<>>)
      ELSE Returned(PyFloat(base.v * Pow(10, k) + idec.v, exp.v - k), <<>>)

-----------------------------------------------------------------------------
(* Syntax tree nodes, as the grammar engine hands them over                *)

\* type, text, start_point (row, col), children; named tells a named node
\* from an anonymous token, field is the node's field name in its parent.
Node(type, text, field, children) ==
  [type |-> type, text |-> text, named |-> TRUE, field |-> field,
   row |-> 0, col |-> 0, children |-> children]

Token(text) ==
  [type |-> text, text |-> text, named |-> FALSE, field |-> "",
   row |-> 0, col |-> 0, children |-> <<>>]

ErrorNode(row, col, children) ==
  [type |-> "ERROR", text |-> <<>>, named |-> TRUE, field |-> "",
   row |-> row, col |-> col, children |-> children]

\* Python's None where a node is expected.
NoNode == Node("<None>", <<>>, "", <<>>)

IsNone(node) == node.type = "<None>"

named_children(node) == SelectSeq(node.children, LAMBDA c : c.named)

child(node, i) ==
  IF i + 1 \in DOMAIN node.children THEN node.children[i + 1] ELSE NoNode

child_by_field_name(node, f) ==
  IF \E i \in DOMAIN node.children : node.children[i].field = f
  THEN node.children[CHOOSE i \in DOMAIN node.children :
                       /\ node.children[i].field = f
                       /\ \A j \in 1..(i - 1) : node.children[j].field # f]
  ELSE NoNode

-----------------------------------------------------------------------------
(* Parser                                                                  *)

\* A registered function is symbolic: its result is a host object that
\* records the function and the argument it was given.
ApplyLiteral(name, s) == PyObj("literals", name, PyStr(s))
ApplyStruct(name, fields) == PyObj("structs", name, PyDict(fields))

\* A dict store that leaves a present key with its first value.
DictSet_keep_first(items, k, v) ==
  IF \E i \in DOMAIN items : items[i][1] = k
  THEN items
  ELSE Append(items, <<k, v>>)

\* d[k] = v of a Python dict: a present key keeps its place and takes the new
\* value, a new key goes last.
DictSet(items, k, v) ==
  IF \E i \in DOMAIN items : items[i][1] = k
  THEN [i \in DOMAIN items |-> IF items[i][1] = k THEN <<k, v>> ELSE items[i]]
  ELSE Append(items, <<k, v>>)

interpret_identifier(node) == node.text

interpret_quoted_string(node) == Strip(node.text, {QUOTE})

interpret_multiline_string(node) ==
  LET cs == named_children(node)
  IN  Join([i \in DOMAIN cs |-> LStrip(cs[i].text, {BSL})], <<NL>>)

interpret_string(node) ==
  IF Len(node.children) = 1 THEN interpret_quoted_string(node)
  ELSE interpret_multiline_string(node)

\* interpret_tag_string handing the registered function the text of the
\* payload with its quotes.
interpret_tag_string_raw(P, node) ==
  LET name == named_children(node)[1].text
      v == interpret_quoted_string(named_children(node)[2])
      raw == named_children(node)[2].text
  IN  IF name \in P.literals
      THEN Returned(ApplyLiteral(name, raw), <<Invoke("literals", name, PyStr(raw))>>)
      ELSE Returned(PyStr(v), <<>>)

interpret_tag_string(P, node) ==
  LET name == named_children(node)[1].text
      v == interpret_quoted_string(named_children(node)[2])
  IN  IF name \in P.literals
      THEN Returned(ApplyLiteral(name, v), <<Invoke("literals", name, PyStr(v))>>)
      ELSE Returned(PyStr(v), <<>>)

RECURSIVE interpret(_, _)
RECURSIVE interpret_map_loop(_, _, _, _)
RECURSIVE interpret_array_loop(_, _, _, _)
RECURSIVE interpret_struct_loop(_, _, _, _)

\* The loop of interpret_map over the named children cs, from the dict items
\* and the log so far.
interpret_map_loop(P, cs, items, log) ==
  IF cs = <<>> THEN Returned(PyDict(items), log)
  ELSE
  LET c == Head(cs)
      key_node == child_by_field_name(c, "key")
  IN  IF IsNone(key_node) THEN Raised("AssertionError", <<>>, log)
      ELSE
      LET k == interpret_quoted_string(key_node)
          r == interpret(P, child_by_field_name(c, "value"))
      IN  IF ~r.ok THEN WithLog(log, r)
          ELSE interpret_map_loop(P, Tail(cs), DictSet(items, k, r.val),
                                  log \o r.log)

interpret_map(P, node) == interpret_map_loop(P, named_children(node), <<>>, <<>>)

interpret_array_loop(P, cs, arr, log) ==
  IF cs = <<>> THEN Returned(PyList(arr), log)
  ELSE
  LET c == Head(cs)
  IN  IF c.children = <<>> THEN Raised("IndexError", <<>>, log)
      ELSE
      LET x == interpret(P, c.children[Len(c.children)])
      IN  IF ~x.ok THEN WithLog(log, x)
          ELSE interpret_array_loop(P, Tail(cs), Append(arr, x.val), log \o x.log)

interpret_array(P, node) ==
  interpret_array_loop(P, named_children(node), <<>>, <<>>)

\* The loop of interpret_struct: the fields dict and the log after the
\* struct_field children among cs.
interpret_struct_loop(P, cs, fields, log) ==
  IF cs = <<>> THEN Returned(PyDict(fields), log)
  ELSE
  LET c == Head(cs)
  IN  IF c.type # "struct_field"
      THEN interpret_struct_loop(P, Tail(cs), fields, log)
      ELSE
      LET key_node == child_by_field_name(c, "key")
      IN  IF IsNone(key_node) THEN Raised("AssertionError", <<>>, log)
          ELSE
          LET k == interpret_identifier(key_node)
              r == interpret(P, child_by_field_name(c, "value"))
          IN  IF ~r.ok THEN WithLog(log, r)
              ELSE interpret_struct_loop(P, Tail(cs), DictSet(fields, k, r.val),
                                         log \o r.log)

\* interpret_struct calling the constructor before the fields are decoded.
interpret_struct_early(P, node) ==
  LET f == interpret_struct_loop(P, named_children(node), <<>>, <<>>)
      name_node == child_by_field_name(node, "name")
      struct_is_named == ~IsNone(name_node)
      name == name_node.text
  IN  IF ~f.ok THEN f
      ELSE IF struct_is_named /\ name \in P.structs
      THEN Returned(ApplyStruct(name, f.val.v),
                    <<Invoke("structs", name, f.val)>> \o f.log)
      ELSE f

interpret_struct(P, node) ==
  LET f == interpret_struct_loop(P, named_children(node), <<>>, <<>>)
      name_node == child_by_field_name(node, "name")
      struct_is_named == ~IsNone(name_node)
      name == name_node.text
  IN  IF ~f.ok THEN f
      ELSE IF struct_is_named /\ name \in P.structs
      THEN Returned(ApplyStruct(name, f.val.v),
                    f.log \o <<Invoke("structs", name, f.val)>>)
      ELSE f

interpret(P, node) ==
  IF IsNone(node) THEN Returned(PyNone, <<>>)
  ELSE
  LET here == <<Visit(node.type)>>
  IN  CASE node.type = "document" -> WithLog(here, interpret(P, child(node, 0)))
        [] node.type = "true" -> Returned(PyBool(TRUE), here)
        [] node.type = "false" -> Returned(PyBool(FALSE), here)
        [] node.type = "null" -> Returned(PyNone, here)
        [] node.type = "integer" -> WithLog(here, interpret_integer(node.text))
        [] node.type = "float" -> WithLog(here, interpret_float(node.text))
        [] node.type = "identifier" ->
             Returned(PyStr(interpret_identifier(node)), here)
        [] node.type = "string" -> Returned(PyStr(interpret_string(node)), here)
        [] node.type = "quoted_string" ->
             Returned(PyStr(interpret_quoted_string(node)), here)
        [] node.type = "tag_string" -> WithLog(here, interpret_tag_string(P, node))
        [] node.type = "map" -> WithLog(here, interpret_map(P, node))
        [] node.type = "array" -> WithLog(here, interpret_array(P, node))
        [] node.type = "struct" -> WithLog(here, interpret_struct(P, node))
        [] node.type = "top_level_struct" ->
             WithLog(here, interpret_struct(P, node))
        [] OTHER -> Raised("ValueError", <<"unsupported: ", node.type>>, here)

\* Parser(literals=..., structs=...): None stands for no registration.
Parser(literals, structs) == [literals |-> literals, structs |-> structs]

-----------------------------------------------------------------------------
(* parse                                                                   *)

CR == "\r"

\* str.splitlines(): the lines of a text, without their line breaks ("\n",
\* "\r" and "\r\n" among the characters of the model); no last empty line.
RECURSIVE SplitLines(_)
SplitLines(s) ==
  IF s = <<>> THEN <<>>
  ELSE IF \A i \in DOMAIN s : s[i] \notin {NL, CR} THEN <<s>>
  ELSE
  LET i == CHOOSE j \in DOMAIN s :
             s[j] \in {NL, CR} /\ \A h \in 1..(j - 1) : s[h] \notin {NL, CR}
      n == IF s[i] = CR /\ i < Len(s) /\ s[i + 1] = NL THEN i + 1 ELSE i
  IN  <<SubSeq(s, 1, i - 1)>> \o SplitLines(Drop(s, n))

Spaces(n) == [i \in 1..n |-> " "]

\* find_errors: the ERROR nodes of the tree under node, node first, then its
\* children's from left to right.
RECURSIVE find_errors(_)
RECURSIVE find_errors_in(_)
find_errors_in(nodes) ==
  IF nodes = <<>> THEN <<>>
  ELSE find_errors(Head(nodes)) \o find_errors_in(Tail(nodes))

\* find_errors looking no deeper than the children of the root.
find_errors_shallow(node) ==
  (IF node.type = "ERROR" THEN <<node>> ELSE <<>>)
  \o SelectSeq(node.children, LAMBDA c : c.type = "ERROR")

find_errors(node) ==
  (IF node.type = "ERROR" THEN <<node>> ELSE <<>>) \o find_errors_in(node.children)

\* error_message with the caret one column to the left.
error_message_short_caret(error_node, source_lines) ==
  LET line_num == error_node.row + 1
      column_num == error_node.col + 1
      head == <<"Error at line ">> \o DecStr(line_num) \o <<", column ">>
              \o DecStr(column_num) \o <<":">>
  IN  IF 0 <= error_node.row /\ error_node.row < Len(source_lines)
      THEN head \o <<NL, " ", " ">> \o source_lines[error_node.row + 1]
           \o <<NL>> \o Spaces(error_node.col + 1) \o <<"^">>
      ELSE head

\* The diagnostic of one error node.
error_message(error_node, source_lines) ==
  LET line_num == error_node.row + 1
      column_num == error_node.col + 1
      head == <<"Error at line ">> \o DecStr(line_num) \o <<", column ">>
              \o DecStr(column_num) \o <<":">>
  IN  IF 0 <= error_node.row /\ error_node.row < Len(source_lines)
      THEN head \o <<NL, " ", " ">> \o source_lines[error_node.row + 1]
           \o <<NL>> \o Spaces(error_node.col + 2) \o <<"^">>
      ELSE head

\* A registry argument: None, or a mapping, of which the model keeps the keys.
NoneArg == [given |-> FALSE, keys |-> {}]
Mapping(keys) == [given |-> TRUE, keys |-> keys]

RegistryOf(a) == IF a.given THEN a.keys ELSE {}

\* parse(s, literals=..., structs=...): s is the text of the document, tree the
\* syntax tree the grammar engine builds from it.
parse(s, tree, literals, structs) ==
  LET error_nodes == find_errors(tree)
  IN  IF error_nodes # <<>>
      THEN LET source_lines == SplitLines(s)
               error_messages ==
                 [i \in DOMAIN error_nodes |->
                    error_message(error_nodes[i], source_lines)]
           IN  Raised("ValueError",
                      <<"Parse error:", NL>> \o Join(error_messages, <<NL>>),
                      <<>>)
      ELSE interpret(Parser(RegistryOf(literals), RegistryOf(structs)), tree)

-----------------------------------------------------------------------------
(* Inputs                                                                  *)

MaxDigits == 3

IntBodyChars == {"0", "1", "7", "9", "a", "F", USCORE}

IntPrefixes == {<<>>, <<"0", "x">>, <<"0", "o">>, <<"0", "b">>, <<"0", "X">>}

RECURSIVE SeqsUpTo(_, _)
SeqsUpTo(S, n) ==
  IF n = 0 THEN {<<>>}
  ELSE LET shorter == SeqsUpTo(S, n - 1)
       IN  shorter \cup {Append(s, c) : s \in {t \in shorter : Len(t) = n - 1}, c \in S}

IntLexemes ==
  {p \o b : p \in IntPrefixes, b \in SeqsUpTo(IntBodyChars, MaxDigits) \ {<<>>}}

MaxFracDigits == 2

HexChars ==
  {"0", "1", "2", "3", "4", "5", "6", "7", "8", "9", "a", "b", "c", "d", "e", "f"}

HexIntParts == {<<"0">>, <<"1", "0", "3">>, <<"E", "F">>}

HexExponents == {<<>>, <<"p", "1", "2">>, <<"P", "-", "5">>}

HexFloatLexemes ==
  {<<"0", "x">> \o i \o <<".">> \o f \o e :
     i \in HexIntParts, f \in SeqsUpTo(HexChars, MaxFracDigits) \ {<<>>},
     e \in HexExponents}
  \cup {<<"0", "x">> \o i \o e : i \in HexIntParts, e \in HexExponents}

DecFloatLexemes ==
  { <<"0">>, <<"1", "2", "3", ".", "4", "5", "6">>, <<"0", ".", "1", "2", "3">>,
    <<"1", "2", "3", "e", "4">>, <<"1", "_", "2", ".", "4", "_", "5", "E", "1", "_", "2">>,
    <<"1", "2", "3", ".", "0", "e", "+", "7">>, <<"1", ".", "5", "e", "-", "3">>,
    <<"1", ".", "5", ".", "2">>, <<"0", "x", "1", ".">> }

FloatLexemes == HexFloatLexemes \cup DecFloatLexemes

-----------------------------------------------------------------------------
(* Input documents: the trees of the grammar's node kinds                  *)

WithField(node, f) == [node EXCEPT !.field = f]

Quoted(content) == <<QUOTE>> \o content \o <<QUOTE>>

NullN == Node("null", <<"n", "u", "l", "l">>, "", <<>>)
TrueN == Node("true", <<"t", "r", "u", "e">>, "", <<>>)
FalseN == Node("false", <<"f", "a", "l", "s", "e">>, "", <<>>)
IntegerN(lexeme) == Node("integer", lexeme, "", <<>>)
FloatN(lexeme) == Node("float", lexeme, "", <<>>)
IdentifierN(name) == Node("identifier", name, "", <<>>)
QuotedStringN(content) == Node("quoted_string", Quoted(content), "", <<>>)

\* "content": a string node over one quoted_string.
StringN(content) ==
  Node("string", Quoted(content), "", <<QuotedStringN(content)>>)

\* A multiline literal: a string node over one line_string per line, each
\* line_string holding the two-backslash marker and the content of the line.
LineStringN(content) == Node("line_string", <<BSL, BSL>> \o content, "", <<>>)

MultilineN(contents) ==
  Node("string",
       Join([i \in DOMAIN contents |-> <<BSL, BSL>> \o contents[i]], <<NL>>),
       "", [i \in DOMAIN contents |-> LineStringN(contents[i])])

\* @name("content")
TagStringN(name, content) ==
  Node("tag_string", <<"@">> \o name \o <<"(">> \o Quoted(content) \o <<")">>,
       "",
       <<Token("@"), IdentifierN(name), Token("("), QuotedStringN(content),
         Token(")")>>)

\* [e, e, ...]
ArrayN(elems) ==
  Node("array", <<>>, "",
       <<Token("[")>>
       \o [i \in DOMAIN elems |-> Node("array_elem", <<>>, "", <<elems[i]>>)]
       \o <<Token("]")>>)

\* {"k": v, ...}; an entry is <<key content, value node>>.
MapFieldN(e) ==
  Node("map_field", <<>>, "",
       <<WithField(QuotedStringN(e[1]), "key"), Token(":"),
         WithField(e[2], "value")>>)

MapN(entries) ==
  Node("map", <<>>, "",
       <<Token("{")>> \o [i \in DOMAIN entries |-> MapFieldN(entries[i])]
       \o <<Token("}")>>)

\* .k = v; a field is <<key name, value node>>.
StructFieldN(f) ==
  Node("struct_field", <<>>, "",
       <<Token("."), WithField(IdentifierN(f[1]), "key"), Token("="),
         WithField(f[2], "value")>>)

\* Name { .k = v, ... }, or { .k = v, ... } when name is <<>>.
StructN(name, fields) ==
  Node("struct", <<>>, "",
       (IF name = <<>> THEN <<>> ELSE <<WithField(IdentifierN(name), "name")>>)
       \o <<Token("{")>> \o [i \in DOMAIN fields |-> StructFieldN(fields[i])]
       \o <<Token("}")>>)

\* .k = v, ... at the top of a document.
TopLevelStructN(fields) ==
  Node("top_level_struct", <<>>, "",
       [i \in DOMAIN fields |-> StructFieldN(fields[i])])

DocumentN(children) == Node("document", <<>>, "", children)

DATE == <<"d", "a", "t", "e">>
UUID == <<"u", "u", "i", "d">>
BOOK == <<"B", "o", "o", "k">>
COMMAND == <<"C", "o", "m", "m", "a", "n", "d">>

\* The number of elements, entries or fields of a container.
MaxEntries == 3

ScalarNodes ==
  { NullN, TrueN, FalseN, IntegerN(<<"0", "x", "1", "F">>),
    IntegerN(<<"1", "_", "0">>), FloatN(<<"1", ".", "5">>),
    FloatN(<<"0", "x", "e", "f", ".", "a", "b", "p", "1", "2">>),
    StringN(<<"h", "i">>), StringN(<<>>), MultilineN(<< <<"a">>, <<"b">> >>),
    TagStringN(DATE, <<"p">>), TagStringN(UUID, <<"q">>) }

ElemNodes ==
  {NullN, IntegerN(<<"7">>), StringN(<<"h", "i">>), TagStringN(DATE, <<"p">>)}

EntryNodes ==
  {IntegerN(<<"7">>), TagStringN(DATE, <<"p">>), TagStringN(DATE, <<"q">>)}

Keys == {<<"a">>, <<"b">>}

Entries == {<<k, v>> : k \in Keys, v \in EntryNodes}

StructNames == {<<>>, BOOK, COMMAND}

Arrays == {ArrayN(es) : es \in SeqsUpTo(ElemNodes, MaxEntries)}

Maps == {MapN(es) : es \in SeqsUpTo(Entries, MaxEntries)}

Structs == {StructN(n, fs) : n \in StructNames, fs \in SeqsUpTo(Entries, MaxEntries)}

TopLevelStructs == {TopLevelStructN(fs) : fs \in SeqsUpTo(Entries, MaxEntries) \ {<<>>}}

\* Containers in containers: a struct in a struct, a map and a struct in an
\* array, an array in a map.
InnerStructs == {StructN(n, <<e>>) : n \in StructNames, e \in Entries}

NestedNodes ==
  {StructN(n, <<<<<<"a">>, s>>>>) : n \in StructNames, s \in InnerStructs}
  \cup {StructN(BOOK, << <<<<"a">>, TagStringN(DATE, <<"p">>)>>, <<<<"b">>, s>>,
                         <<<<"a">>, TagStringN(DATE, <<"q">>)>> >>) :
          s \in InnerStructs}
  \cup {ArrayN(<<MapN(<<e>>), s>>) : e \in Entries, s \in InnerStructs}
  \cup {MapN(<< <<<<"a">>, ArrayN(<<v>>)>>, <<<<"a">>, MapN(<<e>>)>> >>) :
          v \in ElemNodes, e \in Entries}

ValueNodes ==
  ScalarNodes \cup Arrays \cup Maps \cup Structs \cup TopLevelStructs
  \cup NestedNodes

\* The documents without a syntax error: a value, or nothing at all.
Documents == {DocumentN(<<v>>) : v \in ValueNodes} \cup {DocumentN(<<>>)}

\* The documents with syntax errors: ERROR nodes at the root, under the
\* root, in an ERROR node and deep in containers.
MaxRow == 2
MaxCol == 2
MaxSourceLen == 3

Points == (0..MaxRow) \X (0..MaxCol)

ErrorDocuments ==
  {DocumentN(<<ErrorNode(p[1], p[2], <<>>)>>) : p \in Points}
  \cup {ErrorNode(p[1], p[2], <<IntegerN(<<"7">>), ErrorNode(q[1], q[2], <<>>)>>) :
          p \in Points, q \in Points}
  \cup UNION {{DocumentN(<<ArrayN(<<TagStringN(DATE, <<"p">>),
                                    ErrorNode(p[1], p[2], <<Token("?")>>)>>),
                           ErrorNode(q[1], q[2], <<>>)>>) :
                 q \in {<<MaxRow, 0>>, p}} : p \in Points}
  \cup {DocumentN(<<StructN(BOOK,
                            << <<<<"a">>, TagStringN(DATE, <<"p">>)>>,
                               <<<<"b">>, ErrorNode(p[1], p[2], <<>>)>> >>)>>) :
          p \in Points}

SourceChars == {"x", NL, CR}

Sources == SeqsUpTo(SourceChars, MaxSourceLen)

LiteralsArgs == {NoneArg, Mapping({DATE})}

StructsArgs == {NoneArg, Mapping({}), Mapping({BOOK})}

ParseInputs ==
  [s : {<<"x">>}, tree : Documents, literals : LiteralsArgs, structs : StructsArgs]
  \cup [s : Sources, tree : ErrorDocuments, literals : LiteralsArgs,
        structs : {NoneArg, Mapping({BOOK})}]

-----------------------------------------------------------------------------
(* String literals for Parser.interpret                                    *)

MaxUnits == 2
MaxLines == 2
MaxLineLen == 2

\* What a quoted literal holds between its quotes: plain characters and
\* escape sequences.
StringUnits == {<<"a">>, <<BSL, QUOTE>>, <<BSL, BSL>>, <<BSL, "n">>}

RECURSIVE Concat(_)
Concat(parts) == IF parts = <<>> THEN <<>> ELSE Head(parts) \o Concat(Tail(parts))

QuotedContents == {Concat(us) : us \in SeqsUpTo(StringUnits, MaxUnits)}

LineContents == SeqsUpTo({"a", BSL}, MaxLineLen)

StringNodes ==
  {StringN(c) : c \in QuotedContents}
  \cup {MultilineN(ls) : ls \in SeqsUpTo(LineContents, MaxLines) \ {<<>>}}

-----------------------------------------------------------------------------
(* The serializer (ziggy/serializer.py), from its specification            *)

\* The body of a double-quoted literal: the quote and the backslash escaped.
RECURSIVE Escape(_)
Escape(s) ==
  IF s = <<>> THEN <<>>
  ELSE (IF Head(s) \in {QUOTE, BSL} THEN <<BSL, Head(s)>> ELSE <<Head(s)>>)
       \o Escape(Tail(s))

\* The syntax tree of the text serialize(v) emits: null, true, false, decimal
\* digits, a quoted literal for a string without newline and a multiline
\* literal (one marked line per line) for a string with one, [..] and {..}.
RECURSIVE SerializeTree(_)
SerializeTree(v) ==
  CASE v.k = "none" -> NullN
    [] v.k = "bool" -> IF v.v THEN TrueN ELSE FalseN
    [] v.k = "int" ->
         IntegerN(IF v.v < 0 THEN <<"-">> \o DecStr(0 - v.v) ELSE DecStr(v.v))
    [] v.k = "str" ->
         IF NL \in Range(v.v) THEN MultilineN(Split(v.v, NL))
         ELSE StringN(Escape(v.v))
    [] v.k = "list" -> ArrayN([i \in DOMAIN v.v |-> SerializeTree(v.v[i])])
    [] v.k = "dict" ->
         MapN([i \in DOMAIN v.v |->
                 <<Escape(v.v[i][1]), SerializeTree(v.v[i][2])>>])

MaxStrLen == 2

PlainStrings == SeqsUpTo({"a", QUOTE, BSL, NL}, MaxStrLen)

PlainScalars ==
  {PyNone, PyBool(TRUE), PyBool(FALSE), PyInt(0), PyInt(7), PyInt(255), PyInt(-3)}
  \cup {PyStr(s) : s \in PlainStrings}

PlainItems == {PyInt(7), PyStr(<<"a">>), PyStr(<<QUOTE>>), PyList(<<PyNone>>)}

PlainValues ==
  PlainScalars
  \cup {PyList(xs) : xs \in SeqsUpTo(PlainItems, 2)}
  \cup {PyDict(<< <<<<"a">>, x>> >>) : x \in PlainItems}
  \cup {PyDict(<< <<<<"a">>, x>>, <<<<"b">>, y>> >>) : x \in PlainItems, y \in PlainItems}

-----------------------------------------------------------------------------
(* The machine                                                             *)

Init ==
  /\ pc = "idle"
  /\ op = "none"
  /\ arg = <<>>
  /\ ret = Returned(PyNone, <<>>)

CallInterpretInteger ==
  /\ pc = "idle"
  /\ \E s \in IntLexemes :
       /\ arg' = s
       /\ ret' = interpret_integer(s)
  /\ op' = "interpret_integer"
  /\ pc' = "done"

CallInterpretFloat ==
  /\ pc = "idle"
  /\ \E s \in FloatLexemes :
       /\ arg' = s
       /\ ret' = interpret_float(s)
  /\ op' = "interpret_float"
  /\ pc' = "done"

CallParse ==
  /\ pc = "idle"
  /\ \E i \in ParseInputs :
       /\ arg' = i
       /\ ret' = parse(i.s, i.tree, i.literals, i.structs)
  /\ op' = "parse"
  /\ pc' = "done"

\* Parser().interpret(node) on the string node of a literal.
CallInterpret ==
  /\ pc = "idle"
  /\ \E n \in StringNodes :
       /\ arg' = n
       /\ ret' = interpret(Parser(RegistryOf(NoneArg), RegistryOf(NoneArg)), n)
  /\ op' = "Parser.interpret"
  /\ pc' = "done"

\* parse(serialize(v)): v is encoded, the text is decoded again.
CallRoundTrip ==
  /\ pc = "idle"
  /\ \E v \in PlainValues :
       /\ arg' = v
       /\ ret' = parse(<<>>, DocumentN(<<SerializeTree(v)>>), NoneArg, NoneArg)
  /\ op' = "parse(serialize)"
  /\ pc' = "done"

Return ==
  /\ pc = "done"
  /\ pc' = "idle"
  /\ op' = "none"
  /\ arg' = <<>>
  /\ ret' = Returned(PyNone, <<>>)

Next ==
  \/ CallInterpretInteger
  \/ CallInterpretFloat
  \/ CallParse
  \/ CallInterpret
  \/ CallRoundTrip
  \/ Return

Spec == Init /\ [][Next]_vars

-----------------------------------------------------------------------------
(* Vocabulary of the properties                                            *)

Done(o) == pc = "done" /\ op = o

RECURSIVE SubNodes(_)
SubNodes(node) ==
  {node} \cup UNION {SubNodes(node.children[i]) : i \in DOMAIN node.children}

RECURSIVE PreOrder(_)
PreOrder(node) ==
  <<node>> \o Concat([i \in DOMAIN node.children |-> PreOrder(node.children[i])])

HasErrorNode(tree) == \E n \in SubNodes(tree) : n.type = "ERROR"

IsParseError(r) ==
  ~r.ok /\ r.err = "ValueError" /\ StartsWith(r.msg, <<"Parse error:">>)

\* The parser of the parse call of the current state.
CallParser == Parser(RegistryOf(arg.literals), RegistryOf(arg.structs))

\* The value of the digits ds read in a base, most significant first.
RECURSIVE PositionalValue(_, _)
PositionalValue(ds, base) ==
  IF ds = <<>> THEN 0
  ELSE PositionalValue(SubSeq(ds, 1, Len(ds) - 1), base) * base
       + DigitVal(ds[Len(ds)])

WithoutSeparators(s) == SelectSeq(s, LAMBDA c : c # USCORE)

\* Digits of the base with single separators between digits.
SeparatedDigits(body, base) ==
  /\ body # <<>>
  /\ \A i \in DOMAIN body :
       \/ IsDigit(body[i], base)
       \/ /\ body[i] = USCORE
          /\ 1 < i /\ i < Len(body)
          /\ IsDigit(body[i - 1], base) /\ IsDigit(body[i + 1], base)

\* The ordered mapping a sequence of (key, value) bindings denotes: a key
\* stands where it first occurs and is bound to the value of its last
\* occurrence.
OrderedMapping(keys, vals) ==
  LET idx == [i \in DOMAIN keys |-> i]
      firsts == SelectSeq(idx, LAMBDA i : \A j \in 1..(i - 1) : keys[j] # keys[i])
      last(k) == CHOOSE i \in DOMAIN keys :
                   keys[i] = k /\ \A j \in (i + 1)..Len(keys) : keys[j] # k
  IN  [n \in DOMAIN firsts |-> <<keys[firsts[n]], vals[last(keys[firsts[n]])]>>]

-----------------------------------------------------------------------------
(* Properties                                                              *)

\* C7: interpret_integer on a lexeme made of an optional lowercase prefix 0x,
\* 0o or 0b and digits of the matching base (base 10 without prefix) with
\* single _ separators between digits returns the value of the digits read
\* in that base, prefix and separators removed; hexadecimal digits count in
\* either letter case.
C7_Bases ==
  {<<<<>>, 10>>, <<<<"0", "x">>, 16>>, <<<<"0", "o">>, 8>>, <<<<"0", "b">>, 2>>}

C7_IntegerValue ==
  Done("interpret_integer") =>
    \A pb \in C7_Bases :
      (StartsWith(arg, pb[1]) /\ SeparatedDigits(Drop(arg, Len(pb[1])), pb[2])) =>
        /\ ret.ok
        /\ ret.val = PyInt(PositionalValue(
                             WithoutSeparators(Drop(arg, Len(pb[1]))), pb[2]))

C7_Witness ==
  /\ Done("interpret_integer")
  /\ arg = <<"0", "x", "F", "_", "a">>
  /\ ret.val = PyInt(250)

\* C6: for a hexadecimal float lexeme 0x<int>.<frac>[p<exp>] whose fraction
\* digits read in base 16 give fracVal > 0, the fraction is scaled by the
\* number of decimal digits of fracVal: the result is
\* (int16 + fracVal / 10^digits) * 10^exp; fracVal = 0 contributes 0.
C6_Exponent(e) ==
  IF e = <<>> THEN 0
  ELSE IF e[1] = "-" THEN 0 - PositionalValue(Tail(e), 10)
  ELSE IF e[1] = "+" THEN PositionalValue(Tail(e), 10)
  ELSE PositionalValue(e, 10)

C6_Expected(lexeme) ==
  LET xe == Split(Drop(Lower(lexeme), 2), "p")
      bd == Split(xe[1], ".")
      int16 == PositionalValue(WithoutSeparators(bd[1]), 16)
      fracVal == PositionalValue(WithoutSeparators(bd[2]), 16)
      exp == IF Len(xe) = 2 THEN C6_Exponent(xe[2]) ELSE 0
      digits == Len(DecStr(fracVal))
  IN  IF fracVal = 0 THEN PyFloat(int16, exp)
      ELSE PyFloat(int16 * Pow(10, digits) + fracVal, exp - digits)

C6_FractionByDigitCount ==
  (Done("interpret_float") /\ arg \in HexFloatLexemes /\ "." \in Range(arg)) =>
    ret.ok /\ ret.val = C6_Expected(arg)

\* C9: decoding a string node with exactly one child, a quoted literal,
\* removes exactly one leading and one trailing double quote from the text of
\* the node and leaves every other character as it is.
C9_OneQuoteEachSide ==
  (/\ Done("Parser.interpret")
   /\ arg.type = "string"
   /\ Len(arg.children) = 1
   /\ arg.children[1].type = "quoted_string") =>
    ret.ok /\ ret.val = PyStr(SubSeq(arg.text, 2, Len(arg.text) - 1))

\* C10: decoding a multiline literal of n >= 1 lines yields the contents of
\* the lines joined by a newline, the content of a line being its text
\* without the one leading two-backslash marker.
C10_MultilineContents ==
  (/\ Done("Parser.interpret")
   /\ arg.type = "string"
   /\ Len(arg.children) >= 1
   /\ \A i \in DOMAIN arg.children : arg.children[i].type = "line_string") =>
    ret.ok /\ ret.val = PyStr(Join([i \in DOMAIN arg.children |->
                                      Drop(arg.children[i].text, 2)], <<NL>>))

\* C4: decoding the text that encoding produces for a value built from null,
\* booleans, integers, strings, arrays and string-keyed maps yields that
\* value again.
C4_RoundTrip ==
  Done("parse(serialize)") => ret.ok /\ ret.val = arg

\* C3: a tagged literal whose tag is a key of the literals registry is
\* decoded by one invocation of the registered function on the decoded
\* payload, and the result of the function is the value; a tag that is no key
\* decodes to the payload string and no registered function is invoked.
C3_TaggedLiteral ==
  Done("parse") =>
    \A n \in SubNodes(arg.tree) :
      n.type = "tag_string" =>
        LET tag == named_children(n)[1].text
            payload == interpret_quoted_string(named_children(n)[2])
            r == interpret(CallParser, n)
            top == ~HasErrorNode(arg.tree) /\ child(arg.tree, 0) = n
        IN  /\ r.ok
            /\ IF tag \in RegistryOf(arg.literals)
               THEN /\ Calls(r.log) = <<Invoke("literals", tag, PyStr(payload))>>
                    /\ r.val = ApplyLiteral(tag, payload)
               ELSE /\ Calls(r.log) = <<>>
                    /\ r.val = PyStr(payload)
            /\ top => (ret.val = r.val /\ Calls(ret.log) = Calls(r.log))

C3_Witness ==
  /\ Done("parse")
  /\ arg.tree = DocumentN(<<TagStringN(DATE, <<"p">>)>>)
  /\ arg.literals = Mapping({DATE})
  /\ ret.val = PyObj("literals", DATE, PyStr(<<"p">>))
  /\ Len(Calls(ret.log)) = 1

\* The fields of a struct node: the key and the decoding of the value of
\* every struct_field child, in source order.
StructFields(n) ==
  SelectSeq(named_children(n), LAMBDA c : c.type = "struct_field")

\* C2: a struct node whose name is a key of the structs registry is decoded
\* by one invocation of the registered constructor, after the values of all
\* its fields are decoded, on the fields as keyword arguments, and the
\* result of the constructor is the value; an unnamed struct and a struct
\* whose name is no key decode to the ordered mapping of the fields and no
\* constructor is invoked for them.
C2_NamedStruct ==
  Done("parse") =>
    \A n \in SubNodes(arg.tree) :
      (n.type \in {"struct", "top_level_struct"} /\ ~HasErrorNode(n)) =>
        LET fs == StructFields(n)
            keys == [i \in DOMAIN fs |-> child_by_field_name(fs[i], "key").text]
            decoded == [i \in DOMAIN fs |->
                          interpret(CallParser, child_by_field_name(fs[i], "value"))]
            fields == OrderedMapping(keys, [i \in DOMAIN fs |-> decoded[i].val])
            before == Concat([i \in DOMAIN fs |-> Calls(decoded[i].log)])
            name_node == child_by_field_name(n, "name")
            r == interpret(CallParser, n)
            top == ~HasErrorNode(arg.tree) /\ child(arg.tree, 0) = n
        IN  /\ r.ok
            /\ IF ~IsNone(name_node) /\ name_node.text \in RegistryOf(arg.structs)
               THEN /\ Calls(r.log)
                         = before \o <<Invoke("structs", name_node.text,
                                              PyDict(fields))>>
                    /\ r.val = ApplyStruct(name_node.text, fields)
               ELSE /\ Calls(r.log) = before
                    /\ r.val = PyDict(fields)
            /\ top => (ret.val = r.val /\ Calls(ret.log) = Calls(r.log))

C2_Witness ==
  /\ Done("parse")
  /\ arg.structs = Mapping({BOOK})
  /\ arg.literals = Mapping({DATE})
  /\ arg.tree = DocumentN(<<StructN(BOOK,
                    << <<<<"a">>, TagStringN(DATE, <<"p">>)>>,
                       <<<<"b">>, IntegerN(<<"7">>)>> >>)>>)
  /\ ret.val = PyObj("structs", BOOK,
                     PyDict(<< <<<<"a">>, PyObj("literals", DATE, PyStr(<<"p">>))>>,
                               <<<<"b">>, PyInt(7)>> >>))
  /\ Len(Calls(ret.log)) = 2
  /\ Calls(ret.log)[2].ev = "structs"

\* C8: a map node decodes, without an error, to a mapping with unique keys
\* in which every key is bound to the decoded value of its last occurrence
\* and stands where it first occurred; the value of every entry is decoded,
\* also one that a later entry overwrites.
C8_MapDuplicates ==
  Done("parse") =>
    \A n \in SubNodes(arg.tree) :
      (n.type = "map" /\ ~HasErrorNode(n)) =>
        LET es == named_children(n)
            keys == [i \in DOMAIN es |->
                       interpret_quoted_string(child_by_field_name(es[i], "key"))]
            decoded == [i \in DOMAIN es |->
                          interpret(CallParser, child_by_field_name(es[i], "value"))]
            r == interpret(CallParser, n)
            top == ~HasErrorNode(arg.tree) /\ child(arg.tree, 0) = n
        IN  /\ r.ok
            /\ r.val = PyDict(OrderedMapping(keys, [i \in DOMAIN es |-> decoded[i].val]))
            /\ \A i, j \in DOMAIN r.val.v : r.val.v[i][1] = r.val.v[j][1] => i = j
            /\ Calls(r.log) = Concat([i \in DOMAIN es |-> Calls(decoded[i].log)])
            /\ top => (ret.val = r.val /\ Calls(ret.log) = Calls(r.log))

C8_Witness ==
  /\ Done("parse")
  /\ arg.literals = Mapping({DATE})
  /\ arg.tree = DocumentN(<<MapN(<< <<<<"a">>, TagStringN(DATE, <<"p">>)>>,
                                    <<<<"b">>, IntegerN(<<"7">>)>>,
                                    <<<<"a">>, TagStringN(DATE, <<"q">>)>> >>)>>)
  /\ ret.val = PyDict(<< <<<<"a">>, PyObj("literals", DATE, PyStr(<<"q">>))>>,
                         <<<<"b">>, PyInt(7)>> >>)
  /\ Len(Calls(ret.log)) = 2

C5_Block(n, lines) ==
  LET header == <<"Error at line ">> \o DecStr(n.row + 1) \o <<", column ">>
                \o DecStr(n.col + 1) \o <<":">>
      indented == <<" ", " ">> \o lines[n.row + 1]
      caret == Spaces((n.col + 1) + 1) \o <<"^">>
  IN  IF n.row < Len(lines) THEN header \o <<NL>> \o indented \o <<NL>> \o caret
      ELSE header

=============================================================================
